---- MODULE Spec2Model ----
(***************************************************************************)
(* Shift inference of the schedule generator (src/app.py): the punch       *)
(* parser parse_attendance, the shift matcher choose_shift with its cost   *)
(* function gap, and the "parse & assign shifts" / "format for UI" passes  *)
(* of a generation run.                                                    *)
(*                                                                         *)
(* Python values are tagged records so that values of different Python     *)
(* types can be compared: None, NaN (a missing pandas cell), str (a        *)
(* sequence of one-character strings), datetime (minutes since midnight of *)
(* the first day of the payroll period; all datetimes of the program have  *)
(* zero seconds), int and float("inf").  A date string (date_str) is the   *)
(* index of the day in the payroll period.                                 *)
(***************************************************************************)
EXTENDS Integers, Sequences, FiniteSets, TLC

VARIABLES
    mode,             \* which entry point runs: "gap", "match", "parse", "run"
    pc,               \* position: "call"/"ret" of a function call; "assign"/"format"/"done" of a run
    catalog,          \* the module-level list SHIFTS read by choose_shift
    args,             \* arguments of the function call
    ret,              \* value returned by the function call
    attendance_data,  \* run: (employee, date) -> per-day record
    pending,          \* run: records the parse & assign loop has not visited yet
    formatted,        \* run: the formatted output (st.session_state["formatted"])
    locals            \* local variables of the function call when it returns

vars == <<mode, pc, catalog, args, ret, attendance_data, pending, formatted, locals>>

-----------------------------------------------------------------------------
(* Python values *)

None == [none |-> TRUE]
NaN == [nan |-> TRUE]
Inf == [inf |-> TRUE]
Str(chars) == [str |-> chars]
DateTime(minutes) == [dt |-> minutes]
IntVal(i) == [int |-> i]

IsStr(v) == DOMAIN v = {"str"}
IsDateTime(v) == DOMAIN v = {"dt"}

\* pd.isna on a scalar
isna(v) == v = None \/ v = NaN

\* truth value of an optional datetime or string, as tested by `if x`
truthy(v) == v # None /\ v # NaN /\ v # Str(<<>>)

MinutesPerDay == 24 * 60

\* datetime.date() and datetime.combine(date, time)
date_of(d) == d.dt \div MinutesPerDay
combine(day, minute_of_day) == DateTime(day * MinutesPerDay + minute_of_day)

Abs(x) == IF x < 0 THEN -x ELSE x
Max(x, y) == IF x < y THEN y ELSE x

-----------------------------------------------------------------------------
(* shift logic *)

Shift(id, start) == [id |-> Str(id), start |-> start]

\* time(h, m) as the minute of the day
time(h, m) == h * 60 + m

SHIFTS ==
    << Shift(<<"0","6","-","1","5">>, time(6, 0)),
       Shift(<<"0","7","-","1","6">>, time(7, 0)),
       Shift(<<"0","8","-","1","7">>, time(8, 0)),
       Shift(<<"0","9","-","1","8">>, time(9, 0)),
       Shift(<<"1","0","-","1","9">>, time(10, 0)),
       Shift(<<"1","2","-","2","1">>, time(12, 0)),
       Shift(<<"0","1","-","2","2">>, time(13, 0)) >>

\* GRACE = timedelta(minutes=5), in seconds
GRACE == 5 * 60

\* timedelta(hours=9), in minutes
ShiftLength == 9 * 60

gap_signed(a, b) ==
    LET delta == (a.dt - b.dt) * 60 - GRACE
    IN  Max(0, delta \div 60)

gap_no_grace(a, b) ==
    LET delta == Abs(a.dt - b.dt) * 60
    IN  Max(0, delta \div 60)

\* gap(a, b): abs(a - b) - GRACE, floor-divided into whole minutes, at least 0
gap(a, b) ==
    LET delta == Abs(a.dt - b.dt) * 60 - GRACE
    IN  Max(0, delta \div 60)

\* cost of one template inside the loop of choose_shift
shift_cost(s, first_in, last_out) ==
    LET s_start == combine(date_of(first_in), s.start)
        s_end == DateTime(s_start.dt + ShiftLength)
    IN  gap(first_in, s_start) + gap(last_out, s_end)

\* cost < best_cost, where best_cost starts as float("inf")
less_than(cost, best_cost) == IF best_cost = Inf THEN TRUE ELSE cost < best_cost.int

\* the loop of choose_shift from template i on; best holds the locals best_id, best_cost
RECURSIVE choose_loop_last_wins(_, _, _, _, _)
choose_loop_last_wins(shifts, first_in, last_out, i, best) ==
    IF i > Len(shifts) THEN best
    ELSE LET cost == shift_cost(shifts[i], first_in, last_out)
         IN  choose_loop_last_wins(shifts, first_in, last_out, i + 1,
                 IF best.best_cost = Inf \/ cost <= best.best_cost.int
                 THEN [best_id |-> shifts[i].id, best_cost |-> IntVal(cost)]
                 ELSE best)

RECURSIVE choose_loop_always_assign(_, _, _, _, _)
choose_loop_always_assign(shifts, first_in, last_out, i, best) ==
    IF i > Len(shifts) THEN best
    ELSE LET cost == shift_cost(shifts[i], first_in, last_out)
         IN  choose_loop_always_assign(shifts, first_in, last_out, i + 1,
                 [best_id |-> shifts[i].id,
                  best_cost |-> IF less_than(cost, best.best_cost)
                                THEN IntVal(cost) ELSE best.best_cost])

RECURSIVE choose_loop(_, _, _, _, _)
choose_loop(shifts, first_in, last_out, i, best) ==
    IF i > Len(shifts) THEN best
    ELSE LET cost == shift_cost(shifts[i], first_in, last_out)
         IN  choose_loop(shifts, first_in, last_out, i + 1,
                 IF less_than(cost, best.best_cost)
                 THEN [best_id |-> shifts[i].id, best_cost |-> IntVal(cost)]
                 ELSE best)

choose_locals_zero_start(shifts, first_in, last_out) ==
    choose_loop(shifts, first_in, last_out, 1, [best_id |-> None, best_cost |-> IntVal(0)])

\* the locals of choose_shift when it returns, run over the list `shifts`
choose_locals(shifts, first_in, last_out) ==
    choose_loop(shifts, first_in, last_out, 1, [best_id |-> None, best_cost |-> Inf])

\* choose_shift(first_in, last_out) with SHIFTS = shifts
choose_shift_in(shifts, first_in, last_out) ==
    choose_locals(shifts, first_in, last_out).best_id

\* choose_shift reads the module-level catalog
choose_shift(first_in, last_out) == choose_shift_in(catalog, first_in, last_out)

-----------------------------------------------------------------------------
(* punch parser *)

Digits == <<"0", "1", "2", "3", "4", "5", "6", "7", "8", "9">>
IsDigit(c) == \E i \in 1..10 : Digits[i] = c
DigitVal(c) == (CHOOSE i \in 1..10 : Digits[i] = c) - 1
Digit(n) == Digits[n + 1]
IsSpace(c) == c = " "

RECURSIVE lstrip(_)
lstrip(s) == IF s # <<>> /\ IsSpace(Head(s)) THEN lstrip(Tail(s)) ELSE s

RECURSIVE rstrip(_)
rstrip(s) ==
    IF s # <<>> /\ IsSpace(s[Len(s)]) THEN rstrip(SubSeq(s, 1, Len(s) - 1)) ELSE s

\* str.strip()
strip(s) == lstrip(rstrip(s))

\* the directive %H of strptime, regex 2[0-3]|[0-1]\d|\d : number of characters taken (0: no match)
match_H(r) ==
    IF Len(r) >= 2 /\ r[1] = "2" /\ r[2] \in {"0", "1", "2", "3"} THEN 2
    ELSE IF Len(r) >= 2 /\ r[1] \in {"0", "1"} /\ IsDigit(r[2]) THEN 2
    ELSE IF Len(r) >= 1 /\ IsDigit(r[1]) THEN 1
    ELSE 0

\* the directive %M of strptime, regex [0-5]\d|\d
match_M(r) ==
    IF Len(r) >= 2 /\ r[1] \in {"0", "1", "2", "3", "4", "5"} /\ IsDigit(r[2]) THEN 2
    ELSE IF Len(r) >= 1 /\ IsDigit(r[1]) THEN 1
    ELSE 0

Number(r) == IF Len(r) = 1 THEN DigitVal(r[1]) ELSE 10 * DigitVal(r[1]) + DigitVal(r[2])

\* datetime.strptime(f"{date_str} {t}", "%Y-%m-%d %H:%M"): the blank of the format
\* takes every leading blank of t, then %H, ":" and %M must take all of the rest;
\* None stands for the ValueError
strptime(date_str, t) ==
    LET r == lstrip(t)
        h == match_H(r)
        afterH == SubSeq(r, h + 1, Len(r))
        m == IF h > 0 /\ afterH # <<>> /\ Head(afterH) = ":" THEN match_M(Tail(afterH)) ELSE 0
    IN  IF h > 0 /\ m > 0 /\ h + 1 + m = Len(r)
        THEN combine(date_str, time(Number(SubSeq(r, 1, h)), Number(SubSeq(r, h + 2, h + 1 + m))))
        ELSE None

\* to_dt(t) inside parse_attendance
to_dt(t, date_str) == IF t = <<>> THEN None ELSE strptime(date_str, t)

Parsed(time_in, time_out, needs_approval) ==
    [time_in |-> time_in, time_out |-> time_out, needs_approval |-> needs_approval]

parse_attendance_second_token(attendance_str, date_str) ==
    IF isna(attendance_str) THEN Parsed(None, None, FALSE)
    ELSE LET s == strip(attendance_str.str)
             n == Len(s)
         IN  IF n = 10
             THEN Parsed(to_dt(SubSeq(s, 1, 5), date_str), to_dt(SubSeq(s, 6, n), date_str), FALSE)
             ELSE IF n > 10 /\ n % 5 = 0
             THEN Parsed(to_dt(SubSeq(s, 1, 5), date_str), to_dt(SubSeq(s, 6, 10), date_str), FALSE)
             ELSE IF n = 5
             THEN Parsed(to_dt(s, date_str), to_dt(s, date_str), TRUE)
             ELSE Parsed(None, None, TRUE)

parse_attendance(attendance_str, date_str) ==
    IF isna(attendance_str) THEN Parsed(None, None, FALSE)
    ELSE LET s == strip(attendance_str.str)
             n == Len(s)
         IN  IF n = 10
             THEN Parsed(to_dt(SubSeq(s, 1, 5), date_str), to_dt(SubSeq(s, 6, n), date_str), FALSE)
             ELSE IF n > 10 /\ n % 5 = 0
             THEN Parsed(to_dt(SubSeq(s, 1, 5), date_str), to_dt(SubSeq(s, n - 4, n), date_str), FALSE)
             ELSE IF n = 5
             THEN Parsed(to_dt(s, date_str), to_dt(s, date_str), TRUE)
             ELSE Parsed(None, None, TRUE)

\* clean(obj) on a scalar of the output
clean(obj) == IF isna(obj) THEN None ELSE obj

\* datetime.strftime("%H:%M")
strftime_HM(d) ==
    LET h == (d.dt % MinutesPerDay) \div 60
        m == d.dt % 60
    IN  Str(<<Digit(h \div 10), Digit(h % 10), ":", Digit(m \div 10), Digit(m % 10)>>)

-----------------------------------------------------------------------------
(* bounds and inputs *)

MaxGrid == 3      \* points of the time grid beyond the boundary cases
MaxCat == 2       \* length of the catalogs other than SHIFTS
MaxTokens == 3    \* 5-character tokens in a parsed cell
MaxEmp == 1       \* employees of a run

\* minutes of the day: the grace-period boundaries around 08:00 and 17:00, and a grid
InMinutes == {time(7, 54), time(7, 55), time(7, 58), time(8, 0), time(8, 5), time(8, 6),
              time(6, 30)} \cup {time(5, 0) + 150 * k : k \in 0..MaxGrid}
OutMinutes == {time(16, 55), time(17, 0), time(17, 5), time(17, 6), time(17, 10),
               time(15, 30)} \cup {time(14, 0) + 150 * k : k \in 0..MaxGrid}

\* datetimes: day 0, and one time_in on day 1 and one time_out after midnight
InTimes == {DateTime(m) : m \in InMinutes \cup {MinutesPerDay + time(8, 0)}}
OutTimes == {DateTime(m) : m \in OutMinutes \cup {MinutesPerDay + time(17, 0), MinutesPerDay + time(1, 0)}}

Templates == {SHIFTS[i] : i \in 1..Len(SHIFTS)}
Injective(f) == \A i, j \in DOMAIN f : f[i] = f[j] => i = j
ids(shifts) == {shifts[i].id : i \in 1..Len(shifts)}

\* non-empty catalogs with unique ids: SHIFTS and every ordering of up to MaxCat of its templates
Catalogs == {SHIFTS} \cup UNION {{c \in [1..k -> Templates] : Injective(c)} : k \in 1..MaxCat}

Tokens == { <<"0","8",":","0","0">>, <<"1","7",":","0","5">>, <<"1","2",":","0","0">>,
            <<"2","5",":","0","0">>, <<"0","8",":","6","0">>, <<" ","9",":","0","0">> }
Fragments == { <<>>, <<"1">>, <<"1","7",":","0">> }
Paddings == { <<>>, <<" ">> }

RECURSIVE Concat(_)
Concat(ts) == IF ts = <<>> THEN <<>> ELSE Head(ts) \o Concat(Tail(ts))

\* cells handed to parse_attendance: missing, or blank-padded tokens followed by a fragment
ParseCells ==
    {None, NaN} \cup
    {Str(p \o Concat(ts) \o f \o p) :
        ts \in UNION {[1..k -> Tokens] : k \in 0..MaxTokens}, f \in Fragments, p \in Paddings}

Dates == {0, 1}
Employees == 1..MaxEmp
Records == Employees \X Dates

\* cells of the attendance report of a run
RunCells ==
    { None, NaN, Str(<<>>),
      Str(<<"0","7",":","5","8","1","7",":","1","0">>),
      Str(<<"0","8",":","0","0">>),
      Str(<<"0","8",":","0","0","1","2",":","0","0","1","3",":","0","0","1","7",":","0","5">>),
      Str(<<"2","5",":","0","0","1","7",":","0","0">>),
      Str(<<"0","8",":","0","0","1","7",":","0">>) }

-----------------------------------------------------------------------------
(* state machine *)

NoRun == /\ attendance_data = << >>
         /\ pending = {}
         /\ formatted = None

\* a call gap(a, b)
InitGap ==
    /\ mode = "gap" /\ pc = "call" /\ catalog = SHIFTS
    /\ args \in [a : InTimes \cup OutTimes, b : InTimes \cup OutTimes]
    /\ ret = None /\ locals = None /\ NoRun

\* a call choose_shift(first_in, last_out) with some catalog as SHIFTS
InitMatch ==
    /\ mode = "match" /\ pc = "call" /\ catalog \in Catalogs
    /\ args \in [first_in : InTimes, last_out : OutTimes]
    /\ ret = None /\ locals = None /\ NoRun

\* a call parse_attendance(attendance_str, date_str)
InitParse ==
    /\ mode = "parse" /\ pc = "call" /\ catalog = SHIFTS
    /\ args \in [attendance_str : ParseCells, date_str : Dates]
    /\ ret = None /\ locals = None /\ NoRun

\* a generation run, after "map attendance"
InitRun ==
    /\ mode = "run" /\ pc = "assign" /\ catalog = SHIFTS
    /\ args = None /\ ret = None /\ locals = None
    /\ attendance_data \in
         [Records -> {[attendance |-> a, time_in |-> None, time_out |-> None,
                       needs_approval |-> FALSE] : a \in RunCells}]
    /\ pending = Records
    /\ formatted = None

Init == InitGap \/ InitMatch \/ InitParse \/ InitRun

CallGap ==
    /\ mode = "gap" /\ pc = "call"
    /\ ret' = IntVal(gap(args.a, args.b))
    /\ pc' = "ret"
    /\ UNCHANGED <<mode, catalog, args, attendance_data, pending, formatted, locals>>

CallChooseShift ==
    /\ mode = "match" /\ pc = "call"
    /\ ret' = choose_shift(args.first_in, args.last_out)
    /\ locals' = choose_locals(catalog, args.first_in, args.last_out)
    /\ pc' = "ret"
    /\ UNCHANGED <<mode, catalog, args, attendance_data, pending, formatted>>

CallParseAttendance ==
    /\ mode = "parse" /\ pc = "call"
    /\ ret' = parse_attendance(args.attendance_str, args.date_str)
    /\ pc' = "ret"
    /\ UNCHANGED <<mode, catalog, args, attendance_data, pending, formatted, locals>>

assign_shift_ignoring_approval(time_in, time_out, needs_approval) ==
    IF truthy(time_in) /\ truthy(time_out)
    THEN choose_shift(time_in, time_out)
    ELSE None

\* rec["shift"] of the parse & assign loop
assign_shift(time_in, time_out, needs_approval) ==
    IF truthy(time_in) /\ truthy(time_out) /\ ~needs_approval
    THEN choose_shift(time_in, time_out)
    ELSE None

\* the body of the parse & assign loop on one record
processed(rec, date_str) ==
    LET parsed == parse_attendance(rec.attendance, date_str)
    IN  [attendance |-> rec.attendance,
         time_in |-> parsed.time_in,
         time_out |-> parsed.time_out,
         needs_approval |-> parsed.needs_approval,
         shift |-> assign_shift(parsed.time_in, parsed.time_out, parsed.needs_approval)]

ParseAndAssign_shared(key) ==
    /\ mode = "run" /\ pc = "assign" /\ key \in pending
    /\ attendance_data' =
         [k \in Records |->
            IF k[1] = key[1] /\ (k = key \/ k \notin pending)
            THEN [processed(attendance_data[key], key[2]) EXCEPT !.attendance = attendance_data[k].attendance]
            ELSE attendance_data[k]]
    /\ pending' = pending \ {key}
    /\ UNCHANGED <<mode, pc, catalog, args, ret, formatted, locals>>

\* one iteration of the parse & assign loop; the iteration order of the dicts is
\* the order of the report, so any record not yet visited may come next
ParseAndAssign(key) ==
    /\ mode = "run" /\ pc = "assign" /\ key \in pending
    /\ attendance_data' = [attendance_data EXCEPT ![key] = processed(attendance_data[key], key[2])]
    /\ pending' = pending \ {key}
    /\ UNCHANGED <<mode, pc, catalog, args, ret, formatted, locals>>

\* one entry of employee["schedule"], after clean()
schedule_entry(date_str, rec) ==
    [date |-> date_str,
     attendance |-> clean(rec.attendance),
     start |-> clean(IF truthy(rec.time_in) THEN strftime_HM(rec.time_in) ELSE None),
     end |-> clean(IF truthy(rec.time_out) THEN strftime_HM(rec.time_out) ELSE None),
     shift |-> clean(rec.shift),
     approval |-> ~rec.needs_approval]

\* "format for UI", once the parse & assign loop is over
FormatForUI ==
    /\ mode = "run" /\ pc = "assign" /\ pending = {}
    /\ formatted' = [k \in Records |-> schedule_entry(k[2], attendance_data[k])]
    /\ pc' = "done"
    /\ UNCHANGED <<mode, catalog, args, ret, attendance_data, pending, locals>>

Next ==
    \/ CallGap
    \/ CallChooseShift
    \/ CallParseAttendance
    \/ \E key \in Records : ParseAndAssign(key)
    \/ FormatForUI

Spec == Init /\ [][Next]_vars

-----------------------------------------------------------------------------
(* properties *)

Returned(m) == mode = m /\ pc = "ret"

Blank == Str(<<>>)
EightToFive == Str(<<"0","8","-","1","7">>)

\* the cell as parse_attendance sees it: trimmed text and its length
Trimmed(cell) == strip(cell.str)

\* a token written as HH:MM: two digits, a colon, two digits, hour below 24, minute below 60
ValidHHMM(t) ==
    /\ Len(t) = 5
    /\ IsDigit(t[1]) /\ IsDigit(t[2]) /\ t[3] = ":" /\ IsDigit(t[4]) /\ IsDigit(t[5])
    /\ 10 * DigitVal(t[1]) + DigitVal(t[2]) < 24
    /\ 10 * DigitVal(t[4]) + DigitVal(t[5]) < 60

\* the time a token written as HH:MM denotes on a date
TimeOfToken(t, date_str) ==
    DateTime(date_str * MinutesPerDay
             + 60 * (10 * DigitVal(t[1]) + DigitVal(t[2]))
             + 10 * DigitVal(t[4]) + DigitVal(t[5]))

\* the cost of the specification: max(0, |actual - expected| - 5) at both ends
ClaimGap(x, y) == Max(0, Abs(x - y) - 5)
ClaimCost(s, first_in, last_out) ==
    LET expectedStart == (first_in.dt \div MinutesPerDay) * MinutesPerDay + s.start
    IN  ClaimGap(first_in.dt, expectedStart) + ClaimGap(last_out.dt, expectedStart + 9 * 60)

Reordered(shifts, p) == [i \in 1..Len(shifts) |-> shifts[p[i]]]
Orderings(shifts) == {Reordered(shifts, p) : p \in Permutations(1..Len(shifts))}

\* C1: for a missing cell and for the empty string, parse_attendance returns
\* time_in = None, time_out = None and needs_approval = False.
C1_BlankNeverFlagged ==
    (Returned("parse") /\ (isna(args.attendance_str) \/ args.attendance_str = Blank))
        => ret = Parsed(None, None, FALSE)

\* C2 as claimed: for time_in 07:58 and time_out 17:10 against the embedded
\* catalog, choose_shift selects "08-17" and the cost of that template is 0.
C2_ScenarioCostZero ==
    (Returned("match") /\ catalog = SHIFTS
        /\ args.first_in = DateTime(time(7, 58)) /\ args.last_out = DateTime(time(17, 10)))
        => (ret = EightToFive /\ locals.best_cost = IntVal(0))

\* C2 as amended: in that scenario choose_shift selects "08-17" and the cost of
\* that template is 5 (time_out is 10 minutes late, 5 beyond the grace period).
C2_ScenarioCostFive ==
    (Returned("match") /\ catalog = SHIFTS
        /\ args.first_in = DateTime(time(7, 58)) /\ args.last_out = DateTime(time(17, 10)))
        => (ret = EightToFive /\ locals.best_cost = IntVal(5))

C2_Witness ==
    /\ Returned("match") /\ catalog = SHIFTS
    /\ args.first_in = DateTime(time(7, 58)) /\ args.last_out = DateTime(time(17, 10))
    /\ ret = EightToFive

\* C3 as claimed: choose_shift returns the same id for every ordering of the catalog.
C3_OrderIndependent ==
    Returned("match") =>
        \A other \in Orderings(catalog) :
            choose_shift_in(other, args.first_in, args.last_out) = ret

UniqueMinimum(shifts, first_in, last_out) ==
    \E i \in 1..Len(shifts) : \A j \in 1..Len(shifts) :
        j # i => shift_cost(shifts[i], first_in, last_out) < shift_cost(shifts[j], first_in, last_out)

\* C3 as amended: when a single template has the minimal cost, choose_shift
\* returns the same id for every ordering of the catalog.
C3_OrderIndependentUnlessTied ==
    (Returned("match") /\ UniqueMinimum(catalog, args.first_in, args.last_out)) =>
        \A other \in Orderings(catalog) :
            choose_shift_in(other, args.first_in, args.last_out) = ret

C3_Witness ==
    /\ Returned("match") /\ Len(catalog) >= 2
    /\ UniqueMinimum(catalog, args.first_in, args.last_out)
    /\ ret # catalog[1].id

\* C4: choose_shift returns the id of the template of minimal total cost
\* gap(time_in, expectedStart) + gap(time_out, expectedStart + 9h), and among
\* several templates of minimal cost the one that comes first in the catalog.
C4_FirstMinimalCost ==
    Returned("match") =>
        \E i \in 1..Len(catalog) :
            /\ ret = catalog[i].id
            /\ \A j \in 1..Len(catalog) :
                 /\ ClaimCost(catalog[i], args.first_in, args.last_out)
                      <= ClaimCost(catalog[j], args.first_in, args.last_out)
                 /\ j < i => ClaimCost(catalog[i], args.first_in, args.last_out)
                               < ClaimCost(catalog[j], args.first_in, args.last_out)

C4_Witness ==
    /\ Returned("match") /\ Len(catalog) >= 2
    /\ ret = catalog[1].id
    /\ catalog[1].start > catalog[2].start
    /\ ClaimCost(catalog[1], args.first_in, args.last_out)
         = ClaimCost(catalog[2], args.first_in, args.last_out)
    /\ ClaimCost(catalog[1], args.first_in, args.last_out) > 0

\* C5: a record whose needs_approval is true (approval = false in the output)
\* has shift = None, also when time_in and time_out are the same single punch.
C5_FlaggedHasNoShift ==
    mode = "run" =>
        /\ \A k \in Records \ pending :
             attendance_data[k].needs_approval => attendance_data[k].shift = None
        /\ pc = "done" => \A k \in Records : ~formatted[k].approval => formatted[k].shift = None

C5_Witness ==
    /\ mode = "run" /\ pc = "done"
    /\ \E k \in Records :
         /\ ~formatted[k].approval
         /\ formatted[k].start # None /\ formatted[k].start = formatted[k].end
         /\ formatted[k].shift = None

\* C6: choose_shift returns the id of a template of the catalog, never None; so
\* a record with both endpoints parsed and needs_approval false carries a catalog id.
C6_AlwaysACatalogId ==
    /\ Returned("match") => (ret # None /\ ret \in ids(catalog))
    /\ mode = "run" =>
         /\ \A k \in Records \ pending :
              (/\ attendance_data[k].time_in # None
               /\ attendance_data[k].time_out # None
               /\ ~attendance_data[k].needs_approval)
                  => attendance_data[k].shift \in ids(SHIFTS)
         /\ pc = "done" =>
              \A k \in Records :
                  (/\ attendance_data[k].time_in # None
                   /\ attendance_data[k].time_out # None
                   /\ ~attendance_data[k].needs_approval)
                      => formatted[k].shift \in ids(SHIFTS)

C6_Witness ==
    /\ mode = "run" /\ pc = "done"
    /\ \E k \in Records :
         /\ formatted[k].approval
         /\ formatted[k].start # None /\ formatted[k].end # None
         /\ formatted[k].shift \in ids(SHIFTS)

\* C7: for a non-empty cell of trimmed length n: n = 10, or n > 10 and a multiple
\* of 5, gives the first token as time_in, the last token as time_out and
\* needs_approval false, whatever the tokens in between; n = 5 gives the token
\* as both and needs_approval true; any other length gives None, None, true.
C7_LengthRules ==
    (Returned("parse") /\ ~isna(args.attendance_str) /\ args.attendance_str # Blank) =>
        LET s == Trimmed(args.attendance_str)
            n == Len(s)
            d == args.date_str
        IN  /\ (n = 10 \/ (n > 10 /\ n % 5 = 0)) =>
                  ret = Parsed(to_dt(SubSeq(s, 1, 5), d), to_dt(SubSeq(s, n - 4, n), d), FALSE)
            /\ n = 5 => ret = Parsed(to_dt(s, d), to_dt(s, d), TRUE)
            /\ (n < 10 \/ n % 5 # 0) /\ n # 5 => ret = Parsed(None, None, TRUE)

C7_Witness ==
    /\ Returned("parse") /\ ~isna(args.attendance_str)
    /\ LET s == Trimmed(args.attendance_str)
       IN  /\ Len(s) = 15
           /\ ret.time_out # None
           /\ ret.time_out # to_dt(SubSeq(s, 6, 10), args.date_str)
           /\ ret.time_out = to_dt(SubSeq(s, 11, 15), args.date_str)

\* C8: gap(a, b) = max(0, |a - b| - 5) in minutes and gap(a, b) = gap(b, a); a
\* deviation of 5 minutes on both ends costs 0 in total, a deviation of 6 minutes
\* on one end with the other end exact costs 1.
C8_GapGrace ==
    /\ Returned("gap") =>
         /\ ret = IntVal(Max(0, Abs(args.a.dt - args.b.dt) - 5))
         /\ ret = IntVal(gap(args.b, args.a))
    /\ (Returned("match") /\ Len(catalog) = 1) =>
         LET start == date_of(args.first_in) * MinutesPerDay + catalog[1].start
             devIn == Abs(args.first_in.dt - start)
             devOut == Abs(args.last_out.dt - (start + 9 * 60))
         IN  /\ (devIn = 5 /\ devOut = 5) => locals.best_cost = IntVal(0)
             /\ (devIn = 6 /\ devOut = 0) => locals.best_cost = IntVal(1)
             /\ (devIn = 0 /\ devOut = 6) => locals.best_cost = IntVal(1)

C8_Witness ==
    /\ Returned("gap")
    /\ args.a.dt - args.b.dt = -6
    /\ ret = IntVal(1)

\* C9: a 5-character token that is not a valid HH:MM time gives None for its
\* slot only, the other slot is parsed, needs_approval is the one of the length
\* rule, and the record of the run has shift = None.
C9_InvalidTokenIsNull ==
    /\ (Returned("parse") /\ ~isna(args.attendance_str)) =>
         LET s == Trimmed(args.attendance_str)
             n == Len(s)
             d == args.date_str
             Slot(t) == IF ValidHHMM(t) THEN TimeOfToken(t, d) ELSE None
         IN  /\ (n = 10 \/ (n > 10 /\ n % 5 = 0)) =>
                   ret = Parsed(Slot(SubSeq(s, 1, 5)), Slot(SubSeq(s, n - 4, n)), FALSE)
             /\ n = 5 => ret = Parsed(Slot(s), Slot(s), TRUE)
    /\ (mode = "run" /\ pc = "done") =>
         \A k \in Records :
             LET cell == attendance_data[k].attendance
                 s == Trimmed(cell)
                 n == Len(s)
             IN  (/\ ~isna(cell)
                  /\ n >= 5 /\ n % 5 = 0
                  /\ (~ValidHHMM(SubSeq(s, 1, 5)) \/ ~ValidHHMM(SubSeq(s, n - 4, n))))
                     => formatted[k].shift = None

\* C9, the part the code keeps: a 5-character token that strptime rejects gives
\* None for its slot only, the other slot is parsed, needs_approval is the one of
\* the length rule, and the record of the run has shift = None.
C9_RejectedTokenIsNull ==
    /\ (Returned("parse") /\ ~isna(args.attendance_str)) =>
         LET s == Trimmed(args.attendance_str)
             n == Len(s)
             d == args.date_str
             Slot(t) == IF ValidHHMM(t) THEN TimeOfToken(t, d) ELSE None
             Rejected(t) == strptime(d, t) = None
         IN  /\ (n = 10 \/ (n > 10 /\ n % 5 = 0)) =>
                   /\ ~ret.needs_approval
                   /\ Rejected(SubSeq(s, 1, 5)) => ret.time_in = None
                   /\ Rejected(SubSeq(s, n - 4, n)) => ret.time_out = None
                   /\ ValidHHMM(SubSeq(s, 1, 5)) => ret.time_in = Slot(SubSeq(s, 1, 5))
                   /\ ValidHHMM(SubSeq(s, n - 4, n)) => ret.time_out = Slot(SubSeq(s, n - 4, n))
             /\ n = 5 => ret = Parsed(Slot(s), Slot(s), TRUE)
    /\ (mode = "run" /\ pc = "done") =>
         \A k \in Records :
             LET cell == attendance_data[k].attendance
                 s == Trimmed(cell)
                 n == Len(s)
             IN  (/\ ~isna(cell)
                  /\ n >= 5 /\ n % 5 = 0
                  /\ \/ strptime(k[2], SubSeq(s, 1, 5)) = None
                     \/ strptime(k[2], SubSeq(s, n - 4, n)) = None)
                     => formatted[k].shift = None

C9_Witness ==
    /\ mode = "run" /\ pc = "done"
    /\ \E k \in Records :
         /\ attendance_data[k].time_in = None
         /\ attendance_data[k].time_out # None
         /\ ~attendance_data[k].needs_approval
         /\ formatted[k].shift = None

\* C10: a step of the parse & assign loop writes one record, from that record's
\* attendance value and date alone, and leaves every other record unchanged; the
\* output of the run is the same whatever the order of the steps.
C10_RecordsIndependent ==
    [][mode = "run" =>
         /\ \A k \in Records :
              attendance_data'[k] # attendance_data[k] =>
                  /\ k \in pending /\ pending' = pending \ {k}
                  /\ attendance_data'[k].attendance = attendance_data[k].attendance
         /\ \A k1, k2 \in Records \ pending' :
              attendance_data'[k1].attendance = attendance_data'[k2].attendance =>
                  /\ attendance_data'[k1].needs_approval = attendance_data'[k2].needs_approval
                  /\ attendance_data'[k1].shift = attendance_data'[k2].shift
                  /\ k1[2] = k2[2] => attendance_data'[k1] = attendance_data'[k2]
         /\ pc' = "done" =>
              formatted' = [k \in Records |->
                  schedule_entry(k[2],
                      processed([attendance |-> attendance_data[k].attendance], k[2]))]
    ]_vars

C10_Witness ==
    /\ mode = "run" /\ pc = "done"
    /\ \E k1, k2 \in Records :
         /\ k1 # k2
         /\ attendance_data[k1].attendance = attendance_data[k2].attendance
         /\ formatted[k1].shift # None
         /\ formatted[k1].shift = formatted[k2].shift

====
